---- MODULE Spec2Model ----
(***************************************************************************)
(* Orchestration workflow of the AI tutor backend                          *)
(* (backend/graph/workflow.py and the services it calls).                  *)
(*                                                                         *)
(* One run of orchestrate threads a state dict through the nodes           *)
(*   classify_intent -> extract_parameters -> validate                     *)
(*                                  -> {execute_tool | clarify}            *)
(* Each outbound call (Gemini gateway, tool HTTP call, repository write)   *)
(* is answered by the environment; the answers are fixed per run in oracle.*)
(***************************************************************************)
EXTENDS Integers, Sequences, FiniteSets, TLC

(***************************************************************************)
(* Bounds of the model (not program constants).                            *)
(***************************************************************************)
\* how far above the schema maximum the flashcard counts offered go
MaxCountOver == 1
\* the longest missing list handed to the clarification node on its own
MaxMissingLen == 2
\* the largest turn counter a conversation starts with
MaxInitialCount == 2

(***************************************************************************)
(* Python values.  A value is a record [t, s, n]: its type tag, its string *)
(* content and its numeric content.  "absent" is a key that is not in the  *)
(* dict, "none" is None.                                                   *)
(***************************************************************************)
Absent == [t |-> "absent", s |-> "", n |-> 0]
PyNone == [t |-> "none", s |-> "", n |-> 0]
PyStr(x) == [t |-> "str", s |-> x, n |-> 0]
PyInt(i) == [t |-> "int", s |-> "", n |-> i]
PyBool(b) == [t |-> "bool", s |-> "", n |-> IF b THEN 1 ELSE 0]
\* the float i + 0.5
PyFloat(i) == [t |-> "float", s |-> "", n |-> i]

\* Python truthiness, as used by `not params.get(field)`
Truthy(v) ==
    CASE v.t = "str" -> v.s # ""
      [] v.t = "int" -> v.n # 0
      [] v.t = "bool" -> v.n = 1
      [] v.t = "float" -> TRUE
      [] OTHER -> FALSE

\* isinstance(v, int): bool is a subclass of int
IsInstanceInt(v) == v.t \in {"int", "bool"}

\* str(v)
StrOf(v) ==
    CASE v.t = "str" -> v
      [] v.t = "int" -> PyStr(ToString(v.n))
      [] v.t = "bool" -> PyStr(IF v.n = 1 THEN "True" ELSE "False")
      [] v.t = "float" -> PyStr(ToString(v.n) \o ".5")
      [] v.t = "none" -> PyStr("None")
      [] OTHER -> PyStr("N/A")

(***************************************************************************)
(* models/schemas.py                                                       *)
(***************************************************************************)
NOTE_MAKER == "note_maker"
FLASHCARD_GENERATOR == "flashcard_generator"
CONCEPT_EXPLAINER == "concept_explainer"
ToolType == {NOTE_MAKER, FLASHCARD_GENERATOR, CONCEPT_EXPLAINER}

Fields ==
    {"topic", "subject", "note_taking_style", "include_examples",
     "include_analogies", "count", "difficulty", "concept_to_explain",
     "current_topic", "desired_depth"}

NoteStyles == {"outline", "bullet_points", "narrative", "structured"}
Difficulties == {"easy", "medium", "hard"}
Depths == {"basic", "intermediate", "advanced", "comprehensive"}
CountMin == 1
CountMax == 20

\* a parameter dict: every key of Fields, Absent where the key is missing
EmptyParams == [f \in Fields |-> Absent]

\* pydantic field checks (lax mode): str takes only str, bool takes bool and
\* the integers 0 and 1, int takes int and bool, Literal takes its members
PydStr(v) == v.t = "str"
PydBool(v) == v.t = "bool" \/ (v.t = "int" /\ v.n \in {0, 1})
PydLiteral(v, lits) == v.t = "str" /\ v.s \in lits
AsBool(v) == PyBool(v.n = 1)

\* params.get(key, default)
Get(params, key, default) ==
    IF params[key].t = "absent" THEN default ELSE params[key]

NoteMakerInputOk(topic, subject, style, ex, an) ==
    /\ PydStr(topic) /\ PydStr(subject)
    /\ PydLiteral(style, NoteStyles)
    /\ PydBool(ex) /\ PydBool(an)

FlashcardGeneratorInputOk(topic, count, difficulty, subject, ex) ==
    /\ PydStr(topic) /\ PydStr(subject)
    /\ IsInstanceInt(count) /\ count.n >= CountMin /\ count.n <= CountMax
    /\ PydLiteral(difficulty, Difficulties)
    /\ PydBool(ex)

ConceptExplainerInputOk(concept, topic, depth) ==
    /\ PydStr(concept) /\ PydStr(topic)
    /\ PydLiteral(depth, Depths)

\* tool_input: None, or the model_dump() of the input model
NoInput == [present |-> FALSE, user_info |-> FALSE, chat_history |-> FALSE,
            fields |-> EmptyParams]
\* a model_dump that loses the fields of the tool
DumpInputWithoutFields(withHistory, kv) ==
    [present |-> TRUE, user_info |-> TRUE, chat_history |-> withHistory,
     fields |-> EmptyParams]

DumpInput(withHistory, kv) ==
    [present |-> TRUE, user_info |-> TRUE, chat_history |-> withHistory,
     fields |-> [f \in Fields |-> IF f \in DOMAIN kv THEN kv[f] ELSE Absent]]

(***************************************************************************)
(* agents/validator.py                                                     *)
(***************************************************************************)
RequiredNote == <<"topic", "subject", "note_taking_style">>
RequiredFlashcard == <<"topic", "count", "difficulty", "subject">>
RequiredConcept == <<"concept_to_explain", "current_topic", "desired_depth">>

\* [field for field in required if not params.get(field)]
RECURSIVE MissingOf(_, _)
MissingOf(required, params) ==
    IF required = <<>> THEN <<>>
    ELSE (IF Truthy(params[Head(required)]) THEN <<>> ELSE <<Head(required)>>)
         \o MissingOf(Tail(required), params)

VResult(valid, input, missing) ==
    [raised |-> FALSE, valid |-> valid, tool_input |-> input, missing |-> missing]
VRaised == [raised |-> TRUE, valid |-> FALSE, tool_input |-> NoInput, missing |-> <<>>]

_validate_note_maker(params) ==
    LET missing == MissingOf(RequiredNote, params)
        ex == Get(params, "include_examples", PyBool(TRUE))
        an == Get(params, "include_analogies", PyBool(FALSE))
    IN  IF missing # <<>> THEN VResult(FALSE, NoInput, missing)
        ELSE IF NoteMakerInputOk(params["topic"], params["subject"],
                                 params["note_taking_style"], ex, an)
        THEN VResult(TRUE,
                     DumpInput(TRUE,
                        [topic |-> params["topic"], subject |-> params["subject"],
                         note_taking_style |-> params["note_taking_style"],
                         include_examples |-> AsBool(ex),
                         include_analogies |-> AsBool(an)]),
                     <<>>)
        ELSE VResult(FALSE, NoInput, <<"validation_failed">>)

_validate_flashcard(params) ==
    LET missing == MissingOf(RequiredFlashcard, params)
        count == params["count"]
        ex == Get(params, "include_examples", PyBool(TRUE))
    IN  IF missing # <<>> THEN VResult(FALSE, NoInput, missing)
        ELSE IF ~IsInstanceInt(count) \/ ~(CountMin <= count.n /\ count.n <= CountMax)
        THEN VResult(FALSE, NoInput, <<"count">>)
        ELSE IF FlashcardGeneratorInputOk(params["topic"], count,
                                          params["difficulty"], params["subject"], ex)
        THEN VResult(TRUE,
                     DumpInput(FALSE,
                        [topic |-> params["topic"], count |-> PyInt(count.n),
                         difficulty |-> params["difficulty"],
                         subject |-> params["subject"],
                         include_examples |-> AsBool(ex)]),
                     <<>>)
        ELSE VResult(FALSE, NoInput, <<"validation_failed">>)

_validate_concept_explainer(params) ==
    LET missing == MissingOf(RequiredConcept, params)
    IN  IF missing # <<>> THEN VResult(FALSE, NoInput, missing)
        ELSE IF ConceptExplainerInputOk(params["concept_to_explain"],
                                        params["current_topic"],
                                        params["desired_depth"])
        THEN VResult(TRUE,
                     DumpInput(TRUE,
                        [concept_to_explain |-> params["concept_to_explain"],
                         current_topic |-> params["current_topic"],
                         desired_depth |-> params["desired_depth"]]),
                     <<>>)
        ELSE VResult(FALSE, NoInput, <<"validation_failed">>)

\* tool_type is [name, isEnum]: a ToolType member, or the plain str that a
\* model with use_enum_values holds.  Line 37 reads tool_type.value before
\* the try block, which raises AttributeError on a plain str.
validate_parameters(tool_type, params) ==
    IF ~tool_type.isEnum THEN VRaised
    ELSE IF tool_type.name = NOTE_MAKER THEN _validate_note_maker(params)
    ELSE IF tool_type.name = FLASHCARD_GENERATOR THEN _validate_flashcard(params)
    ELSE _validate_concept_explainer(params)

(***************************************************************************)
(* Inputs of a run and the environment's answers.                          *)
(*                                                                         *)
(* Messages are known by the keywords classify_intent looks for.           *)
(* Histories are empty, a list of ChatMessage objects, or a list of dicts  *)
(* (what api/routes.py passes when it loads the history from the database).*)
(***************************************************************************)
Messages == {"", "help", "make notes", "quiz me", "notes and a quiz"}
HasNoteKeyword(m) == m \in {"make notes", "notes and a quiz"}
HasFlashcardKeyword(m) == m \in {"quiz me", "notes and a quiz"}
Histories == {"empty", "objects", "dicts"}

\* items of the history that have no .role attribute make the comprehension
\* at gemini_service.py:85 and :173 raise
HistoryTextRaises(h) == h = "dicts"

ClassifyReplies ==
    {"fail", "note_maker", "flashcard_generator", "concept_explainer", "unrecognized"}
ExtractReplies ==
    {"fail", "malformed", "full", "full_no_conf", "partial", "partial_unreported",
     "bad_enum", "bad_count", "no_count", "conf_out_of_range", "bad_optional"}
ClarifyReplies == {"fail", "question"}
ToolReplies ==
    {"ok", "ok_odd_shape", "ok_not_json_object", "bad_status", "timeout",
     "transport_error", "settings_error"}
DbModes == {"none", "ok", "fail"}

(***************************************************************************)
(* services/gemini_service.py : classify_intent                            *)
(***************************************************************************)
GRaised == [raised |-> TRUE, called |-> FALSE, tool |-> "None"]
GTool(t, called) == [raised |-> FALSE, called |-> called, tool |-> t]

\* a keyword fallback whose last resort is the flashcard generator
KeywordFallbackFlashcardDefault(message) ==
    IF HasNoteKeyword(message) THEN NOTE_MAKER
    ELSE FLASHCARD_GENERATOR

KeywordFallback(message) ==
    IF HasNoteKeyword(message) THEN NOTE_MAKER
    ELSE IF HasFlashcardKeyword(message) THEN FLASHCARD_GENERATOR
    ELSE CONCEPT_EXPLAINER

\* a classifier that answers a failed gateway call by keyword matching
classify_intent_keywords_on_failure(message, chat_history, reply) ==
    IF HistoryTextRaises(chat_history) THEN GRaised
    ELSE IF reply \in ToolType THEN GTool(reply, TRUE)
    ELSE GTool(KeywordFallback(message), TRUE)

classify_intent(message, chat_history, reply) ==
    IF HistoryTextRaises(chat_history) THEN GRaised
    ELSE IF reply = "fail" THEN GTool(CONCEPT_EXPLAINER, TRUE)
    ELSE IF reply \in ToolType THEN GTool(reply, TRUE)
    ELSE GTool(KeywordFallback(message), TRUE)

(***************************************************************************)
(* The JSON object the model answers an extraction prompt with, by kind of *)
(* reply.  confidence is in hundredths; Absent is a key left out.          *)
(***************************************************************************)
Conf(p) == [t |-> "num", s |-> "", n |-> p]
With(params, kv) == [f \in Fields |-> IF f \in DOMAIN kv THEN kv[f] ELSE params[f]]

FullParams(tool) ==
    IF tool = NOTE_MAKER
    THEN With(EmptyParams, [topic |-> PyStr("photosynthesis"), subject |-> PyStr("biology"),
                            note_taking_style |-> PyStr("outline"),
                            include_examples |-> PyBool(TRUE),
                            include_analogies |-> PyBool(FALSE)])
    ELSE IF tool = FLASHCARD_GENERATOR
    THEN With(EmptyParams, [topic |-> PyStr("photosynthesis"), count |-> PyInt(8),
                            difficulty |-> PyStr("easy"), subject |-> PyStr("biology"),
                            include_examples |-> PyBool(TRUE)])
    ELSE With(EmptyParams, [concept_to_explain |-> PyStr("entropy"),
                            current_topic |-> PyStr("physics"),
                            desired_depth |-> PyStr("basic")])

Json(params, inferred, missing, confidence) ==
    [params |-> params, inferred |-> inferred, missing |-> missing,
     confidence |-> confidence]

ReplyJson(tool, kind) ==
    LET full == FullParams(tool)
        second == IF tool = CONCEPT_EXPLAINER THEN "current_topic" ELSE "subject"
        enum == IF tool = NOTE_MAKER THEN "note_taking_style"
                ELSE IF tool = FLASHCARD_GENERATOR THEN "difficulty" ELSE "desired_depth"
    IN  CASE kind = "full" -> Json(full, {second}, <<>>, Conf(90))
          [] kind = "full_no_conf" -> Json(full, {}, <<>>, Absent)
          [] kind = "partial" ->
                Json([full EXCEPT ![second] = Absent], {}, <<second>>, Conf(50))
          [] kind = "partial_unreported" ->
                Json([full EXCEPT ![enum] = PyStr("")], {}, <<>>, Conf(70))
          [] kind = "bad_enum" ->
                Json([full EXCEPT ![enum] = PyStr("other")], {enum}, <<>>, Conf(80))
          [] kind = "bad_count" ->
                Json([full EXCEPT !["count"] = PyInt(CountMax + MaxCountOver)],
                     {}, <<>>, Conf(80))
          [] kind = "no_count" ->
                Json([full EXCEPT !["count"] = Absent], {}, <<>>, Conf(80))
          [] kind = "conf_out_of_range" -> Json(full, {}, <<>>, Conf(150))
          [] OTHER -> Json([full EXCEPT !["include_examples"] = PyStr("maybe")],
                           {}, <<>>, Conf(80))

(***************************************************************************)
(* models/schemas.py : ExtractedParameters                                 *)
(* services/gemini_service.py : extract_parameters                         *)
(***************************************************************************)
NoBundle ==
    [present |-> FALSE, tool_type |-> [name |-> "None", isEnum |-> FALSE],
     parameters |-> EmptyParams, confidence |-> 0, missing_required |-> <<>>,
     inferred_params |-> EmptyParams]

\* a confidence field without its range
ConfidenceUnchecked(c) == c.t = "num"

\* confidence: float = Field(ge=0.0, le=1.0)
ConfidenceOk(c) == c.t = "num" /\ c.n >= 0 /\ c.n <= 100

\* a bundle that is always made out to the concept explainer
ExtractedParametersForConcept(tool, params, confidence, missing, inferred, byValue) ==
    [present |-> TRUE, tool_type |-> [name |-> CONCEPT_EXPLAINER, isEnum |-> ~byValue],
     parameters |-> params, confidence |-> confidence.n,
     missing_required |-> missing, inferred_params |-> inferred]

\* the model instance; byValue says that use_enum_values replaced the
\* ToolType member by its plain str value
ExtractedParameters(tool, params, confidence, missing, inferred, byValue) ==
    [present |-> TRUE, tool_type |-> [name |-> tool, isEnum |-> ~byValue],
     parameters |-> params, confidence |-> confidence.n,
     missing_required |-> missing, inferred_params |-> inferred]

NoInferred == EmptyParams
\* {param: str(result.get(param, "N/A")) for param in result.get("inferred", [])}
InferredOf(params, inferred) ==
    [f \in Fields |-> IF f \in inferred THEN StrOf(params[f]) ELSE Absent]

FallbackNote(byValue) ==
    ExtractedParameters(NOTE_MAKER,
        With(EmptyParams, [topic |-> PyStr("general study topic"),
                           subject |-> PyStr("General"),
                           note_taking_style |-> PyStr("bullet_points"),
                           include_examples |-> PyBool(TRUE),
                           include_analogies |-> PyBool(FALSE)]),
        Conf(30), <<"topic", "subject">>, NoInferred, byValue)

FallbackFlashcard(byValue) ==
    ExtractedParameters(FLASHCARD_GENERATOR,
        With(EmptyParams, [topic |-> PyStr("general topic"), count |-> PyInt(5),
                           difficulty |-> PyStr("medium"), subject |-> PyStr("General"),
                           include_examples |-> PyBool(TRUE)]),
        Conf(30), <<"topic", "subject">>, NoInferred, byValue)

FallbackConcept(byValue) ==
    ExtractedParameters(CONCEPT_EXPLAINER,
        With(EmptyParams, [concept_to_explain |-> PyStr("general concept"),
                           current_topic |-> PyStr("General"),
                           desired_depth |-> PyStr("intermediate")]),
        Conf(30), <<"concept_to_explain", "current_topic">>, NoInferred, byValue)

\* an extraction that keeps whatever count the reply holds
NormaliseCountKeeps(params) == params

\* the count check of _extract_flashcard_params (lines 346-348)
NormaliseCount(params) ==
    LET count == Get(params, "count", PyInt(5))
    IN  IF ~IsInstanceInt(count) \/ count.n < CountMin \/ count.n > CountMax
        THEN [params EXCEPT !["count"] = PyInt(5)]
        ELSE params

FromReply(tool, params, json, byValue) ==
    ExtractedParameters(tool, params,
                        IF json.confidence.t = "absent" THEN Conf(80) ELSE json.confidence,
                        json.missing, InferredOf(params, json.inferred), byValue)

_extract_note_maker_params(reply, byValue) ==
    LET json == ReplyJson(NOTE_MAKER, reply)
    IN  IF reply \in {"fail", "malformed"} THEN FallbackNote(byValue)
        ELSE IF json.confidence.t # "absent" /\ ~ConfidenceOk(json.confidence)
        THEN FallbackNote(byValue)
        ELSE FromReply(NOTE_MAKER, json.params, json, byValue)

_extract_flashcard_params(reply, byValue) ==
    LET json == ReplyJson(FLASHCARD_GENERATOR, reply)
    IN  IF reply \in {"fail", "malformed"} THEN FallbackFlashcard(byValue)
        ELSE IF json.confidence.t # "absent" /\ ~ConfidenceOk(json.confidence)
        THEN FallbackFlashcard(byValue)
        ELSE FromReply(FLASHCARD_GENERATOR, NormaliseCount(json.params), json, byValue)

_extract_concept_explainer_params(reply, byValue) ==
    LET json == ReplyJson(CONCEPT_EXPLAINER, reply)
    IN  IF reply \in {"fail", "malformed"} THEN FallbackConcept(byValue)
        ELSE IF json.confidence.t # "absent" /\ ~ConfidenceOk(json.confidence)
        THEN FallbackConcept(byValue)
        ELSE FromReply(CONCEPT_EXPLAINER, json.params, json, byValue)

ERaised == [raised |-> TRUE, called |-> FALSE, bundle |-> NoBundle]
EBundle(b) == [raised |-> FALSE, called |-> TRUE, bundle |-> b]

extract_parameters(chat_history, tool_type, reply, byValue) ==
    IF HistoryTextRaises(chat_history) THEN ERaised
    ELSE IF tool_type = NOTE_MAKER THEN EBundle(_extract_note_maker_params(reply, byValue))
    ELSE IF tool_type = FLASHCARD_GENERATOR
    THEN EBundle(_extract_flashcard_params(reply, byValue))
    ELSE EBundle(_extract_concept_explainer_params(reply, byValue))

(***************************************************************************)
(* services/gemini_service.py : generate_clarification_question            *)
(***************************************************************************)
Null == "<null>"
Contains(seq, x) == \E i \in 1..Len(seq) : seq[i] = x

QRaised == [raised |-> TRUE, called |-> TRUE, text |-> Null]
QText(t) == [raised |-> FALSE, called |-> TRUE, text |-> t]

generate_clarification_question(missing_params, reply) ==
    IF reply = "question" THEN QText("<question phrased by the model>")
    ELSE IF Contains(missing_params, "topic")
    THEN QText("What topic would you like to learn about?")
    ELSE IF Contains(missing_params, "concept_to_explain")
    THEN QText("Which concept would you like me to explain?")
    ELSE IF missing_params = <<>> THEN QRaised
    ELSE QText("Could you provide more details about " \o missing_params[1] \o "?")

(***************************************************************************)
(* agents/tool_executor.py : execute_tool                                  *)
(***************************************************************************)
NoResponse ==
    [present |-> FALSE, tool_type |-> "None", success |-> FALSE,
     data |-> Null, error |-> Null]
ToolResponse(tool, success, data, error) ==
    [present |-> TRUE, tool_type |-> tool, success |-> success,
     data |-> data, error |-> error]

TRaised(e) == [raised |-> TRUE, called |-> FALSE, error |-> e, response |-> NoResponse]
TResp(r) == [raised |-> FALSE, called |-> TRUE, error |-> Null, response |-> r]

execute_tool(tool_type, reply) ==
    CASE reply = "settings_error" -> TRaised("no attribute tool_service_url")
      [] reply = "ok" -> TResp(ToolResponse(tool_type, TRUE, "payload", Null))
      [] reply = "ok_odd_shape" -> TResp(ToolResponse(tool_type, TRUE, "odd payload", Null))
      [] reply = "ok_not_json_object" ->
            TResp(ToolResponse(tool_type, FALSE, Null, "data is not a dict"))
      [] reply = "bad_status" ->
            TResp(ToolResponse(tool_type, FALSE, Null, "Tool API error: 500"))
      [] reply = "timeout" ->
            TResp(ToolResponse(tool_type, FALSE, Null, "Tool execution timeout"))
      [] OTHER -> TResp(ToolResponse(tool_type, FALSE, Null, "connection refused"))

(***************************************************************************)
(* Repository writes.  A node hands the repositories a list of writes      *)
(* inside one try block: the first write that fails ends the list.         *)
(***************************************************************************)
\* repositories that file every write under one conversation
WrittenUnkeyed(db_session, conversation_id, writes) ==
    IF db_session = "ok"
    THEN [i \in 1..Len(writes) |-> [conv |-> "conversation-1", kind |-> writes[i]]]
    ELSE <<>>

\* repositories that receive the writes of a stage last one first
WrittenReversed(db_session, conversation_id, writes) ==
    IF db_session = "ok"
    THEN [i \in 1..Len(writes) |->
            [conv |-> conversation_id, kind |-> writes[Len(writes) + 1 - i]]]
    ELSE <<>>

(***************************************************************************)
(* database/repositories/conversation_repository.py                       *)
(* increment_message_count issues UPDATE ... SET message_count =           *)
(* message_count + 1: the database adds one to the value stored in the row *)
(* when the statement runs, not to the value the run's session loaded when *)
(* the request began (api/routes.py get_or_create).                        *)
(***************************************************************************)
Conversations == {"conversation-1", "conversation-2"}

\* an increment computed from the value the session loaded
increment_message_count_from_session(stored, loaded) == loaded + 1

increment_message_count(stored, loaded) == stored + 1

RECURSIVE Incremented(_, _, _)
Incremented(stored, loaded, times) ==
    IF times = 0 THEN stored
    ELSE Incremented(increment_message_count(stored, loaded), loaded, times - 1)

NoCounts ==
    [initial |-> [c \in Conversations |-> 0],
     row |-> [c \in Conversations |-> 0],
     loaded |-> [r \in {"a", "b"} |-> 0]]

\* a session is None ("none"), works ("ok"), fails every write ("fail") or
\* fails the writes of one kind ("fail:" followed by the kind)
WriteKinds ==
    {"user_message", "parameter_extraction", "tool_execution", "assistant_message",
     "increment"}
DbSingleFailures == {"fail:" \o k : k \in WriteKinds}
FailsAt(db_session, kind) == db_session = "fail" \/ db_session = "fail:" \o kind

\* workflow.py: the writes of a stage share one try, the first failure ends them
RECURSIVE UntilFailure(_, _)
UntilFailure(db_session, writes) ==
    IF writes = <<>> THEN <<>>
    ELSE IF FailsAt(db_session, Head(writes)) THEN <<>>
    ELSE <<Head(writes)>> \o UntilFailure(db_session, Tail(writes))

\* NodePersistence: every save_* has its own try and the next one still runs;
\* the increments of one increment_message_count(count=2) share a try
RECURSIVE ExceptFailures(_, _)
ExceptFailures(db_session, writes) ==
    IF writes = <<>> THEN <<>>
    ELSE IF FailsAt(db_session, Head(writes))
    THEN ExceptFailures(db_session, Tail(writes))
    ELSE <<Head(writes)>> \o ExceptFailures(db_session, Tail(writes))

Written(db_session, conversation_id, writes) ==
    LET kept == IF db_session = "none" THEN <<>>
                ELSE UntilFailure(db_session, writes)
    IN  [i \in 1..Len(kept) |-> [conv |-> conversation_id, kind |-> kept[i]]]

WrittenPerCall(db_session, conversation_id, writes) ==
    LET kept == IF db_session = "none" THEN <<>>
                ELSE ExceptFailures(db_session, writes)
    IN  [i \in 1..Len(kept) |-> [conv |-> conversation_id, kind |-> kept[i]]]

(***************************************************************************)
(* graph/workflow.py : the state dict and the five nodes.                  *)
(* A node yields the new state, the outbound calls it issued and the       *)
(* repository writes that went through.                                    *)
(***************************************************************************)
Profiles == {"empty profile", "profile"}

\* an initial state that keeps none of the history it is given
create_initial_state_without_history(user_message, user_info, chat_history, conversation_id, db_session) ==
    [user_message |-> user_message, user_info |-> user_info,
     chat_history |-> "empty", conversation_id |-> conversation_id,
     db_session |-> db_session,
     intent |-> "None", extracted_params |-> NoBundle,
     validation_passed |-> FALSE, tool_input |-> NoInput,
     tool_response |-> NoResponse, final_message |-> Null,
     needs_clarification |-> FALSE, clarification_question |-> Null,
     processing_steps |-> <<>>, errors |-> <<>>]

\* an initial state that already carries an (empty) clarification question
create_initial_state_with_question(user_message, user_info, chat_history, conversation_id, db_session) ==
    [user_message |-> user_message, user_info |-> user_info,
     chat_history |-> chat_history, conversation_id |-> conversation_id,
     db_session |-> db_session,
     intent |-> "None", extracted_params |-> NoBundle,
     validation_passed |-> FALSE, tool_input |-> NoInput,
     tool_response |-> NoResponse, final_message |-> Null,
     needs_clarification |-> FALSE, clarification_question |-> "",
     processing_steps |-> <<>>, errors |-> <<>>]

create_initial_state(user_message, user_info, chat_history, conversation_id, db_session) ==
    [user_message |-> user_message, user_info |-> user_info,
     chat_history |-> chat_history, conversation_id |-> conversation_id,
     db_session |-> db_session,
     intent |-> "None", extracted_params |-> NoBundle,
     validation_passed |-> FALSE, tool_input |-> NoInput,
     tool_response |-> NoResponse, final_message |-> Null,
     needs_clarification |-> FALSE, clarification_question |-> Null,
     processing_steps |-> <<>>, errors |-> <<>>]

\* a failed repository write that reaches the caller's view of the run
PersistExceptSurfaces(state) ==
    [state EXCEPT !.errors = Append(@, "database error"),
                  !.final_message = "An error occurred: database error"]

\* the `except Exception as db_error` branch around a node's repository
\* writes: it logs and leaves the state as it is
PersistExcept(state) == state

NodeResult(state, calls, writes) ==
    [state |-> IF state.db_session = "fail" /\ writes # <<>>
               THEN PersistExcept(state) ELSE state,
     calls |-> calls,
     writes |-> Written(state.db_session, state.conversation_id, writes)]

intent_classification_node(state, reply) ==
    LET g == classify_intent(state.user_message, state.chat_history, reply)
    IN  IF g.raised
        THEN NodeResult([state EXCEPT
                            !.errors = Append(@, "Intent classification error"),
                            !.intent = CONCEPT_EXPLAINER],
                        <<>>, <<>>)
        ELSE NodeResult([state EXCEPT
                            !.intent = g.tool,
                            !.processing_steps =
                                Append(@, "Intent classified as: " \o g.tool)],
                        <<"gateway:classify_intent">>, <<"user_message">>)

parameter_extraction_node(state, reply, byValue) ==
    LET e == extract_parameters(state.chat_history, state.intent, reply, byValue)
    IN  IF e.raised
        THEN NodeResult([state EXCEPT
                            !.errors = Append(@, "Parameter extraction error"),
                            !.extracted_params =
                                ExtractedParameters(state.intent, EmptyParams, Conf(0),
                                                    <<"all">>, NoInferred, byValue)],
                        <<>>, <<>>)
        ELSE NodeResult([state EXCEPT
                            !.extracted_params = e.bundle,
                            !.processing_steps =
                                Append(@, "Extracted parameters with "
                                          \o ToString(e.bundle.confidence)
                                          \o "% confidence")],
                        <<"gateway:extract_parameters">>, <<"parameter_extraction">>)

\* a validation node whose except branch lets the run pass
validation_node_fault_passes(state) ==
    LET v == validate_parameters(state.extracted_params.tool_type,
                                 state.extracted_params.parameters)
    IN  IF v.raised
        THEN NodeResult([state EXCEPT
                            !.errors = Append(@, "Validation error"),
                            !.validation_passed = TRUE],
                        <<>>, <<>>)
        ELSE IF v.valid
        THEN NodeResult([state EXCEPT
                            !.validation_passed = TRUE,
                            !.tool_input = v.tool_input,
                            !.processing_steps = Append(@, "Validation passed")],
                        <<>>, <<>>)
        ELSE NodeResult([state EXCEPT
                            !.validation_passed = FALSE,
                            !.tool_input = v.tool_input,
                            !.processing_steps = Append(@, "Validation failed"),
                            !.extracted_params.missing_required = v.missing],
                        <<>>, <<>>)

\* a validation node that also resets the confidence of a failing bundle
validation_node_resets_confidence(state) ==
    LET v == validate_parameters(state.extracted_params.tool_type,
                                 state.extracted_params.parameters)
    IN  IF v.raised
        THEN NodeResult([state EXCEPT
                            !.errors = Append(@, "Validation error"),
                            !.validation_passed = FALSE],
                        <<>>, <<>>)
        ELSE IF v.valid
        THEN NodeResult([state EXCEPT
                            !.validation_passed = TRUE,
                            !.tool_input = v.tool_input,
                            !.processing_steps = Append(@, "Validation passed")],
                        <<>>, <<>>)
        ELSE NodeResult([state EXCEPT
                            !.validation_passed = FALSE,
                            !.tool_input = v.tool_input,
                            !.processing_steps = Append(@, "Validation failed"),
                            !.extracted_params.missing_required = v.missing,
                            !.extracted_params.confidence = 0],
                        <<>>, <<>>)

validation_node(state) ==
    LET v == validate_parameters(state.extracted_params.tool_type,
                                 state.extracted_params.parameters)
    IN  IF v.raised
        THEN NodeResult([state EXCEPT
                            !.errors = Append(@, "Validation error"),
                            !.validation_passed = FALSE],
                        <<>>, <<>>)
        ELSE IF v.valid
        THEN NodeResult([state EXCEPT
                            !.validation_passed = TRUE,
                            !.tool_input = v.tool_input,
                            !.processing_steps = Append(@, "Validation passed")],
                        <<>>, <<>>)
        ELSE NodeResult([state EXCEPT
                            !.validation_passed = FALSE,
                            !.tool_input = v.tool_input,
                            !.processing_steps = Append(@, "Validation failed"),
                            !.extracted_params.missing_required = v.missing],
                        <<>>, <<>>)

StaticQuestion == "Could you provide more details?"

clarification_node(state, reply) ==
    LET q == generate_clarification_question(state.extracted_params.missing_required,
                                             reply)
    IN  IF q.raised
        THEN NodeResult([state EXCEPT
                            !.clarification_question = StaticQuestion,
                            !.final_message = StaticQuestion],
                        <<"gateway:generate_clarification">>, <<>>)
        ELSE NodeResult([state EXCEPT
                            !.needs_clarification = TRUE,
                            !.clarification_question = q.text,
                            !.final_message = q.text,
                            !.processing_steps =
                                Append(@, "Generated clarification question")],
                        <<"gateway:generate_clarification">>,
                        <<"assistant_message", "increment", "increment">>)

SuccessMessage == "Tool executed successfully. Here are your results:"

\* the except branch without a message for the user
ToolExecutionExceptSilent(state, e) ==
    [state EXCEPT
        !.errors = Append(@, "Tool execution error: " \o e),
        !.tool_response = ToolResponse(state.intent, FALSE, Null, e)]

\* the except branch without the synthesized ToolResponse
ToolExecutionExceptNoResponse(state, e) ==
    [state EXCEPT
        !.errors = Append(@, "Tool execution error: " \o e),
        !.final_message = "An error occurred: " \o e]

\* the except branch of the node (lines 495-505)
ToolExecutionExcept(state, e) ==
    [state EXCEPT
        !.errors = Append(@, "Tool execution error: " \o e),
        !.tool_response = ToolResponse(state.intent, FALSE, Null, e),
        !.final_message = "An error occurred: " \o e]

tool_execution_node(state, reply) ==
    LET t == execute_tool(state.intent, reply)
        resp == t.response
        call == <<"tool:" \o state.intent>>
        writes == <<"tool_execution", "assistant_message", "increment", "increment">>
        stepped == [state EXCEPT
                      !.tool_response = resp,
                      !.processing_steps =
                          Append(@, IF resp.success THEN "Tool executed: True"
                                    ELSE "Tool executed: False")]
    IN  IF t.raised THEN NodeResult(ToolExecutionExcept(state, t.error), <<>>, <<>>)
        ELSE IF resp.success /\ resp.data = "odd payload"
        THEN NodeResult(ToolExecutionExcept(
                            [stepped EXCEPT !.final_message = SuccessMessage],
                            "unexpected payload shape"),
                        call, <<>>)
        ELSE IF resp.success
        THEN NodeResult([stepped EXCEPT !.final_message = SuccessMessage], call, writes)
        ELSE NodeResult([stepped EXCEPT
                            !.final_message = "Tool execution failed: " \o resp.error,
                            !.errors = Append(@, "Tool execution failed: " \o resp.error)],
                        call, writes)

(***************************************************************************)
(* graph/nodes : the five stages again, with the same statements on the    *)
(* state and the repository writes handed to NodePersistence.              *)
(***************************************************************************)
\* the writes a stage attempts, in order
Attempted(res) == [i \in 1..Len(res.writes) |-> res.writes[i].kind]
ViaNodePersistence(state, res) ==
    [state |-> [res.state EXCEPT !.db_session = state.db_session],
     calls |-> res.calls,
     writes |-> WrittenPerCall(state.db_session, state.conversation_id,
                               Attempted(res))]
WithSession(state) ==
    IF state.db_session = "none" THEN state ELSE [state EXCEPT !.db_session = "ok"]

nodes_intent_classification_node(state, reply) ==
    ViaNodePersistence(state, intent_classification_node(WithSession(state), reply))
nodes_parameter_extraction_node(state, reply, byValue) ==
    ViaNodePersistence(state,
                       parameter_extraction_node(WithSession(state), reply, byValue))
nodes_validation_node(state) ==
    ViaNodePersistence(state, validation_node(WithSession(state)))
nodes_clarification_node(state, reply) ==
    ViaNodePersistence(state, clarification_node(WithSession(state), reply))
nodes_tool_executor_node(state, reply) ==
    ViaNodePersistence(state, tool_execution_node(WithSession(state), reply))

\* the routing function with its branches swapped
should_clarify_swapped(state) == IF state.validation_passed THEN "clarify" ELSE "execute"

\* edges that send a failed tool call back into execute_tool
EdgeRetry(node, state) ==
    CASE node = "classify_intent" -> "extract_parameters"
      [] node = "extract_parameters" -> "validate"
      [] node = "validate" ->
            IF state.validation_passed THEN "execute_tool" ELSE "clarify"
      [] node = "execute_tool" ->
            IF state.tool_response.success THEN "END" ELSE "execute_tool"
      [] OTHER -> "END"

\* the routing function and the edges of create_orchestrator_graph
should_clarify(state) == IF state.validation_passed THEN "execute" ELSE "clarify"

EntryPoint == "classify_intent"
Edge(node, state) ==
    CASE node = "classify_intent" -> "extract_parameters"
      [] node = "extract_parameters" -> "validate"
      [] node = "validate" ->
            IF should_clarify(state) = "execute" THEN "execute_tool" ELSE "clarify"
      [] OTHER -> "END"

Apology == "An error occurred during processing. Please try again."

\* an except branch that leaves the error log as the nodes left it
OrchestrateExceptKeepsLog(initial_state, e) ==
    [raised |-> FALSE, state |-> [initial_state EXCEPT !.final_message = Apology]]

\* an except branch that hands the exception on to the caller
OrchestrateExceptReraises(initial_state, e) ==
    [raised |-> TRUE, state |-> initial_state]

\* the except branch of orchestrate
OrchestrateExcept(initial_state, e) ==
    [raised |-> FALSE,
     state |-> [initial_state EXCEPT !.errors = <<e>>, !.final_message = Apology]]

(***************************************************************************)
(* The state machine: runs of orchestrate.                                 *)
(***************************************************************************)
VARIABLES
    active,     \* the runs that are made
    inputs,     \* per run: the arguments orchestrate is called with
    okey,       \* per run: which environment answers its outbound calls
    oracle,     \* per environment: the answers given so far
    st,         \* per run: the state dict
    pc,         \* per run: "idle", the node to run next, "END", "returned"
    stages,     \* per run: the nodes that have run, in order
    calls,      \* per run: the outbound gateway and tool calls, in order
    dbLog,      \* the repository writes that went through, in order
    result,     \* per run: what orchestrate handed to its caller
    message_count   \* per conversation: the turn counter of its row, the value
                \* it started with, and per run the value its session loaded

vars == <<active, inputs, okey, oracle, st, pc, stages, calls, dbLog, result,
          message_count>>

Runs == {"a", "b"}
Nodes == {"classify_intent", "extract_parameters", "validate", "clarify", "execute_tool"}

Unset == "unset"
NoOracle ==
    [classify |-> Unset, extract |-> Unset, byValue |-> Unset,
     clarify |-> Unset, tool |-> Unset]
NoResult == [raised |-> FALSE, state |-> create_initial_state("", "empty profile", "empty", "None", "none")]

InputSet ==
    [user_message : Messages, user_info : Profiles, chat_history : Histories,
     conversation_id : {"conversation-1"}, db_session : DbModes]
InitialState(i) ==
    create_initial_state(i.user_message, i.user_info, i.chat_history,
                         i.conversation_id, i.db_session)

InitAt(act, inp, key, st0, pc0, stages0) ==
    /\ active = act
    /\ inputs = inp
    /\ okey = key
    /\ oracle = [k \in Runs |-> NoOracle]
    /\ st = [r \in Runs |-> IF r \in DOMAIN st0 THEN st0[r] ELSE NoResult.state]
    /\ pc = [r \in Runs |-> IF r \in DOMAIN pc0 THEN pc0[r] ELSE "idle"]
    /\ stages = [r \in Runs |-> IF r \in DOMAIN stages0 THEN stages0[r] ELSE <<>>]
    /\ calls = [r \in Runs |-> <<>>]
    /\ dbLog = <<>>
    /\ result = [r \in Runs |-> NoResult]
    /\ message_count = NoCounts

NoRuns == [r \in {} |-> "idle"]
InitWith(act, inp, key) == InitAt(act, inp, key, NoRuns, NoRuns, NoRuns)

\* one run
Init ==
    \E i \in InputSet :
        InitWith({"a"}, [r \in Runs |-> i], [r \in Runs |-> r])

\* the environment answers `reply` to the call `field` of run r: a first
\* answer is free, a later one repeats it
Answers(r, field, reply) == oracle[okey[r]][field] \in {Unset, reply}
Record(r, kv) ==
    [oracle EXCEPT ![okey[r]] =
        [f \in DOMAIN NoOracle |-> IF f \in DOMAIN kv THEN kv[f] ELSE @[f]]]

\* orchestrate up to app.ainvoke(initial_state)
Orchestrate(r) ==
    /\ r \in active
    /\ pc[r] = "idle"
    /\ st' = [st EXCEPT ![r] = InitialState(inputs[r])]
    /\ pc' = [pc EXCEPT ![r] = EntryPoint]
    /\ UNCHANGED <<active, inputs, okey, oracle, stages, calls, dbLog, result,
                   message_count>>

\* the engine ran `node` with outcome `res` and follows the edge out of it
RunNode(r, node, res) ==
    /\ st' = [st EXCEPT ![r] = res.state]
    /\ stages' = [stages EXCEPT ![r] = Append(@, node)]
    /\ calls' = [calls EXCEPT ![r] = @ \o res.calls]
    /\ dbLog' = dbLog \o [i \in 1..Len(res.writes) |->
                            [by |-> r, conv |-> res.writes[i].conv,
                             kind |-> res.writes[i].kind]]
    /\ message_count' =
          [message_count EXCEPT
              !.row = [c \in Conversations |->
                          Incremented(@[c], message_count.loaded[r],
                                      Cardinality({i \in 1..Len(res.writes) :
                                                      /\ res.writes[i].conv = c
                                                      /\ res.writes[i].kind = "increment"}))]]
    /\ pc' = [pc EXCEPT ![r] = Edge(node, res.state)]
    /\ UNCHANGED <<active, inputs, okey, result>>

ClassifyIntent(r) ==
    /\ pc[r] = "classify_intent"
    /\ \E reply \in ClassifyReplies :
        /\ Answers(r, "classify", reply)
        /\ oracle' = Record(r, [classify |-> reply])
        /\ RunNode(r, "classify_intent", intent_classification_node(st[r], reply))

ExtractParameters(r) ==
    /\ pc[r] = "extract_parameters"
    /\ \E reply \in ExtractReplies, byValue \in {"yes", "no"} :
        /\ Answers(r, "extract", reply)
        /\ Answers(r, "byValue", byValue)
        /\ oracle' = Record(r, [extract |-> reply, byValue |-> byValue])
        /\ RunNode(r, "extract_parameters",
                   parameter_extraction_node(st[r], reply, byValue = "yes"))

Validate(r) ==
    /\ pc[r] = "validate"
    /\ oracle' = oracle
    /\ RunNode(r, "validate", validation_node(st[r]))

Clarify(r) ==
    /\ pc[r] = "clarify"
    /\ \E reply \in ClarifyReplies :
        /\ Answers(r, "clarify", reply)
        /\ oracle' = Record(r, [clarify |-> reply])
        /\ RunNode(r, "clarify", clarification_node(st[r], reply))

ExecuteTool(r) ==
    /\ pc[r] = "execute_tool"
    /\ \E reply \in ToolReplies :
        /\ Answers(r, "tool", reply)
        /\ oracle' = Record(r, [tool |-> reply])
        /\ RunNode(r, "execute_tool", tool_execution_node(st[r], reply))

\* an orchestrate that stays in its summary after the graph has ended
ReturnStalls(r) ==
    /\ pc[r] = "END"
    /\ UNCHANGED vars

\* app.ainvoke returned: orchestrate returns the final state
Return(r) ==
    /\ pc[r] = "END"
    /\ result' = [result EXCEPT ![r] = [raised |-> FALSE, state |-> st[r]]]
    /\ pc' = [pc EXCEPT ![r] = "returned"]
    /\ UNCHANGED <<active, inputs, okey, oracle, st, stages, calls, dbLog,
                   message_count>>

\* app.ainvoke raised: the except branch of orchestrate builds the result
\* from initial_state, the dict the nodes may or may not have written to
AinvokeRaises(r) ==
    /\ pc[r] \in Nodes
    /\ \E seen \in {st[r], InitialState(inputs[r])} :
        result' = [result EXCEPT ![r] = OrchestrateExcept(seen, "engine error")]
    /\ pc' = [pc EXCEPT ![r] = "returned"]
    /\ UNCHANGED <<active, inputs, okey, oracle, st, stages, calls, dbLog,
                   message_count>>

Next ==
    \E r \in Runs :
        \/ Orchestrate(r)
        \/ ClassifyIntent(r)
        \/ ExtractParameters(r)
        \/ Validate(r)
        \/ Clarify(r)
        \/ ExecuteTool(r)
        \/ Return(r)

Spec == Init /\ [][Next]_vars

\* runs in which the graph engine itself may fail
NextEngine == Next \/ \E r \in Runs : AinvokeRaises(r)
SpecEngine == Init /\ [][NextEngine]_vars

\* every outbound call eventually returns or fails: a run that can take a
\* stage or return eventually does
SpecFair == Init /\ [][NextEngine]_vars /\ WF_vars(Next)

TypeOK ==
    /\ active \subseteq Runs
    /\ \A r \in Runs :
        /\ pc[r] \in {"idle", "END", "returned"} \cup Nodes
        /\ st[r].intent \in ToolType \cup {"None"}
        /\ st[r].validation_passed \in BOOLEAN

(***************************************************************************)
(* The validation node on its own: it is handed a state whose bundle is    *)
(* drawn from bounded sets of field values.                                *)
(***************************************************************************)
TextValues == {Absent, PyNone, PyStr(""), PyStr("photosynthesis"), PyInt(7)}
CountValues ==
    {Absent, PyStr("five"), PyFloat(2)}
        \cup {PyInt(i) : i \in 0..CountMin}
        \cup {PyInt(i) : i \in CountMax..(CountMax + MaxCountOver)}
FlagValues == {Absent, PyBool(TRUE), PyBool(FALSE), PyStr("maybe")}
LiteralValues(lits) == {Absent, PyStr("other")} \cup {PyStr(x) : x \in lits}

BundleParams ==
    {With(EmptyParams, [topic |-> t, subject |-> s, note_taking_style |-> y,
                        include_examples |-> e, include_analogies |-> a]) :
        t \in TextValues, s \in {Absent, PyStr("biology")},
        y \in LiteralValues({"outline", "structured"}),
        e \in FlagValues, a \in {Absent, PyBool(TRUE)}}
    \cup
    {With(EmptyParams, [topic |-> t, count |-> c, difficulty |-> d,
                        subject |-> PyStr("biology"), include_examples |-> e]) :
        t \in TextValues, c \in CountValues,
        d \in LiteralValues({"easy"}), e \in FlagValues}
    \cup
    {With(EmptyParams, [concept_to_explain |-> c, current_topic |-> t,
                        desired_depth |-> d]) :
        c \in TextValues, t \in TextValues, d \in LiteralValues(Depths)}

AfterExtraction(i, tool, bundle) ==
    [InitialState(i) EXCEPT !.intent = tool, !.extracted_params = bundle]

InitValidate ==
    \E tool \in ToolType, params \in BundleParams, byValue \in BOOLEAN :
        LET i == [user_message |-> "quiz me", user_info |-> "profile",
                  chat_history |-> "objects", conversation_id |-> "conversation-1",
                  db_session |-> "none"]
        IN  InitAt({"a"}, [r \in Runs |-> i], [r \in Runs |-> r],
                   [a |-> AfterExtraction(i, tool,
                            ExtractedParameters(tool, params, Conf(80), <<>>,
                                                NoInferred, byValue))],
                   [a |-> "validate"],
                   [a |-> <<"classify_intent", "extract_parameters">>])

NextValidate == \E r \in Runs : Validate(r)
SpecValidate == InitValidate /\ [][NextValidate]_vars

(***************************************************************************)
(* The clarification node on its own: it is handed a state whose bundle    *)
(* carries a missing list drawn from the lists of distinct names up to     *)
(* MaxMissingLen.                                                          *)
(***************************************************************************)
MissingNames == {"topic", "subject", "count", "concept_to_explain", "desired_depth"}
MissingLists ==
    {m \in UNION {[1..n -> MissingNames] : n \in 0..MaxMissingLen} :
        \A i, j \in 1..Len(m) : m[i] = m[j] => i = j}

InitClarify ==
    \E tool \in ToolType, missing \in MissingLists :
        LET i == [user_message |-> "help", user_info |-> "profile",
                  chat_history |-> "objects", conversation_id |-> "conversation-1",
                  db_session |-> "none"]
        IN  InitAt({"a"}, [r \in Runs |-> i], [r \in Runs |-> r],
                   [a |-> AfterExtraction(i, tool,
                            ExtractedParameters(tool, EmptyParams, Conf(50), missing,
                                                NoInferred, FALSE))],
                   [a |-> "clarify"],
                   [a |-> <<"classify_intent", "extract_parameters", "validate">>])

NextClarify == \E r \in Runs : Clarify(r)
SpecClarify == InitClarify /\ [][NextClarify]_vars

(***************************************************************************)
(* The same request made twice against the same environment: once with a   *)
(* database session whose every write fails, once without a session.       *)
(***************************************************************************)
InitPair ==
    \E i \in InputSet :
        /\ i.db_session = "fail"
        /\ InitWith(Runs,
                    [r \in Runs |-> IF r = "a" THEN i
                                    ELSE [i EXCEPT !.db_session = "none"]],
                    [r \in Runs |-> "a"])

SpecPair == InitPair /\ [][Next]_vars

(***************************************************************************)
(* Two requests of two conversations, each with its own replies from the   *)
(* gateway and the tool service, interleaved stage by stage.  The replies  *)
(* to classification and extraction are fixed when the runs start.         *)
(***************************************************************************)
TwoExtractReplies == {"full", "fail"}
InitTwo ==
    \E h \in Histories, e \in [Runs -> TwoExtractReplies],
       v \in [Runs -> {"yes", "no"}] :
        /\ active = Runs
        /\ inputs =
              [r \in Runs |->
                 [user_message |-> IF r = "a" THEN "make notes" ELSE "quiz me",
                  user_info |-> "profile",
                  chat_history |-> IF r = "a" THEN h ELSE "objects",
                  conversation_id |-> IF r = "a" THEN "conversation-1"
                                      ELSE "conversation-2",
                  db_session |-> "ok"]]
        /\ okey = [r \in Runs |-> r]
        /\ oracle = [r \in Runs |->
                        [NoOracle EXCEPT !.classify = "unrecognized",
                                         !.extract = e[r], !.byValue = v[r]]]
        /\ st = [r \in Runs |-> NoResult.state]
        /\ pc = [r \in Runs |-> "idle"]
        /\ stages = [r \in Runs |-> <<>>]
        /\ calls = [r \in Runs |-> <<>>]
        /\ dbLog = <<>>
        /\ result = [r \in Runs |-> NoResult]
        /\ message_count = NoCounts

SpecTwo == InitTwo /\ [][Next]_vars

\* the state orchestrate returns for inputs i when the environment answers o
RunAlone(i, o) ==
    LET s1 == intent_classification_node(InitialState(i), o.classify).state
        s2 == parameter_extraction_node(s1, o.extract, o.byValue = "yes").state
        s3 == validation_node(s2).state
    IN  IF Edge("validate", s3) = "execute_tool"
        THEN tool_execution_node(s3, o.tool).state
        ELSE clarification_node(s3, o.clarify).state

(***************************************************************************)
(* The extraction and validation stages of a flashcard request whose reply *)
(* parses: the reply's count and its other fields are drawn from bounded   *)
(* sets of JSON values.                                                    *)
(***************************************************************************)
ReplyCounts ==
    CountValues \cup {PyNone, PyBool(TRUE), PyBool(FALSE), PyInt(5), PyInt(CountMax - 1)}

InitCount ==
    LET i == [user_message |-> "quiz me", user_info |-> "profile",
              chat_history |-> "objects", conversation_id |-> "conversation-1",
              db_session |-> "none"]
    IN  InitAt({"a"}, [r \in Runs |-> i], [r \in Runs |-> r],
               [a |-> [InitialState(i) EXCEPT !.intent = FLASHCARD_GENERATOR]],
               [a |-> "extract_parameters"],
               [a |-> <<"classify_intent">>])

\* the try branch of _extract_flashcard_params and of the extraction node
ExtractFlashcardReply(r) ==
    /\ pc[r] = "extract_parameters"
    /\ \E c \in ReplyCounts, t \in TextValues, d \in LiteralValues({"easy"}),
          byValue \in {"yes", "no"} :
        LET json == Json(With(EmptyParams,
                              [topic |-> t, count |-> c, difficulty |-> d,
                               subject |-> PyStr("biology"),
                               include_examples |-> PyBool(TRUE)]),
                         {}, <<>>, Conf(80))
            bundle == FromReply(FLASHCARD_GENERATOR, NormaliseCount(json.params),
                                json, byValue = "yes")
        IN  /\ Answers(r, "byValue", byValue)
            /\ oracle' = Record(r, [byValue |-> byValue])
            /\ RunNode(r, "extract_parameters",
                       NodeResult([st[r] EXCEPT
                                      !.extracted_params = bundle,
                                      !.processing_steps =
                                          Append(@, "Extracted parameters with "
                                                    \o ToString(bundle.confidence)
                                                    \o "% confidence")],
                                  <<"gateway:extract_parameters">>,
                                  <<"parameter_extraction">>))

NextCount == \E r \in Runs : ExtractFlashcardReply(r) \/ Validate(r)
SpecCount == InitCount /\ [][NextCount]_vars

(***************************************************************************)
(* Two requests on one conversation in their terminal stage.  Each has     *)
(* loaded the conversation row into its session and issues its two         *)
(* increments one statement at a time; a statement goes through or raises, *)
(* and a raise ends the stage's writes.                                    *)
(***************************************************************************)
InitIncrement ==
    \E n \in 0..MaxInitialCount :
        LET i == [user_message |-> "help", user_info |-> "profile",
                  chat_history |-> "objects", conversation_id |-> "conversation-1",
                  db_session |-> "ok"]
        IN  /\ active = Runs
            /\ inputs = [r \in Runs |-> i]
            /\ okey = [r \in Runs |-> r]
            /\ oracle = [k \in Runs |-> NoOracle]
            /\ st = [r \in Runs |-> InitialState(i)]
            /\ pc = [r \in Runs |-> "idle"]
            /\ stages = [r \in Runs |-> <<>>]
            /\ calls = [r \in Runs |-> <<>>]
            /\ dbLog = <<>>
            /\ result = [r \in Runs |-> NoResult]
            /\ message_count =
                  [NoCounts EXCEPT !.initial["conversation-1"] = n,
                                   !.row["conversation-1"] = n]

\* api/routes.py: conv_repo.get_or_create puts the row in the run's session
LoadConversation(r) ==
    /\ pc[r] = "idle"
    /\ message_count' =
          [message_count EXCEPT
              !.loaded[r] = message_count.row[inputs[r].conversation_id]]
    /\ pc' = [pc EXCEPT ![r] = "clarify"]
    /\ UNCHANGED <<active, inputs, okey, oracle, st, stages, calls, dbLog, result>>

\* one conv_repo.increment_message_count of the stage's two
IncrementOnce(r) ==
    /\ pc[r] = "clarify"
    /\ \E ok \in BOOLEAN :
        LET c == inputs[r].conversation_id
        IN  IF ok
            THEN /\ message_count' =
                       [message_count EXCEPT
                           !.row[c] = increment_message_count(@, message_count.loaded[r])]
                 /\ dbLog' = Append(dbLog, [by |-> r, conv |-> c, kind |-> "increment"])
                 /\ calls' = [calls EXCEPT ![r] = Append(@, "db:increment")]
                 /\ pc' = [pc EXCEPT ![r] = IF Len(calls[r]) = 1 THEN "END" ELSE "clarify"]
            ELSE /\ calls' = [calls EXCEPT ![r] = Append(@, "db:increment raised")]
                 /\ pc' = [pc EXCEPT ![r] = "END"]
                 /\ UNCHANGED <<message_count, dbLog>>
    /\ UNCHANGED <<active, inputs, okey, oracle, st, stages, result>>

NextIncrement == \E r \in Runs : LoadConversation(r) \/ IncrementOnce(r)
SpecIncrement == InitIncrement /\ [][NextIncrement]_vars

(***************************************************************************)
(* The same request served twice against the same replies and the same     *)
(* database session, which works or fails the writes of one kind: run a by *)
(* the stages of workflow.py, then run b by the stages of graph/nodes.     *)
(***************************************************************************)
InitNodes ==
    \E m \in {"make notes", "quiz me"}, db \in {"ok"} \cup DbSingleFailures :
        LET i == [user_message |-> m, user_info |-> "profile",
                  chat_history |-> "objects", conversation_id |-> "conversation-1",
                  db_session |-> db]
        IN  InitWith(Runs, [r \in Runs |-> i], [r \in Runs |-> "a"])

NodesStage(r, node, field, reply, res) ==
    /\ r = "b"
    /\ pc[r] = node
    /\ field # "" => Answers(r, field, reply)
    /\ RunNode(r, node, res)

NextNodes ==
    \/ Orchestrate("a")
    \/ ClassifyIntent("a")
    \/ ExtractParameters("a")
    \/ Validate("a")
    \/ Clarify("a")
    \/ ExecuteTool("a")
    \/ Return("a")
    \/ pc["a"] = "returned" /\ Orchestrate("b")
    \/ \E reply \in ClassifyReplies :
          /\ NodesStage("b", "classify_intent", "classify", reply,
                        nodes_intent_classification_node(st["b"], reply))
          /\ oracle' = Record("b", [classify |-> reply])
    \/ \E reply \in ExtractReplies, byValue \in {"yes", "no"} :
          /\ Answers("b", "byValue", byValue)
          /\ NodesStage("b", "extract_parameters", "extract", reply,
                        nodes_parameter_extraction_node(st["b"], reply, byValue = "yes"))
          /\ oracle' = Record("b", [extract |-> reply, byValue |-> byValue])
    \/ /\ NodesStage("b", "validate", "", "", nodes_validation_node(st["b"]))
       /\ oracle' = oracle
    \/ \E reply \in ClarifyReplies :
          /\ NodesStage("b", "clarify", "clarify", reply,
                        nodes_clarification_node(st["b"], reply))
          /\ oracle' = Record("b", [clarify |-> reply])
    \/ \E reply \in ToolReplies :
          /\ NodesStage("b", "execute_tool", "tool", reply,
                        nodes_tool_executor_node(st["b"], reply))
          /\ oracle' = Record("b", [tool |-> reply])
    \/ Return("b")

SpecNodes == InitNodes /\ [][NextNodes]_vars

(***************************************************************************)
(* Properties                                                              *)
(***************************************************************************)
Ran(r, node) == Contains(stages[r], node)
Env(r) == oracle[okey[r]]
Required(tool) ==
    IF tool = NOTE_MAKER THEN RequiredNote
    ELSE IF tool = FLASHCARD_GENERATOR THEN RequiredFlashcard
    ELSE RequiredConcept
ToolCalls(r) == {i \in 1..Len(calls[r]) : calls[r][i] \in {"tool:" \o t : t \in ToolType}}
GatewayFailed(reply) == reply \in {"fail", "malformed"}

\* C1: orchestrate is total.  Whatever the inputs and whatever fails in the
\* gateway, the tool call, the repositories or the graph engine, a run can
\* always go on until it returns, and what it returns is a state, never an
\* exception handed to the caller.
C1_OrchestrateTotal ==
    \A r \in active :
        /\ ~result[r].raised
        /\ pc[r] # "returned" => ENABLED NextEngine
        /\ pc[r] = "returned" =>
              /\ result[r].state.user_message = inputs[r].user_message
              /\ result[r].state.conversation_id = inputs[r].conversation_id

C1_Witness ==
    /\ pc["a"] = "returned"
    /\ inputs["a"].user_message = "" /\ inputs["a"].chat_history = "empty"
    /\ inputs["a"].user_info = "empty profile" /\ inputs["a"].db_session = "fail"
    /\ Env("a").classify = "fail" /\ Env("a").extract = "fail"
    /\ Env("a").tool = "timeout"

\* C2 as stated: in the state a completed run returns, exactly one of
\* "the tool response is present with success true" and "a clarification
\* question is present" holds.
C2_ExactlyOneSuccessOrQuestion ==
    \A r \in active :
        pc[r] = "returned" =>
            ((result[r].state.tool_response.present
                /\ result[r].state.tool_response.success)
             # (result[r].state.clarification_question # Null))

\* C2 amended: in the state a completed run returns, exactly one of "a tool
\* response is present, successful or failed" and "a clarification question
\* is present" holds.
C2_ExactlyOneResponseOrQuestion ==
    \A r \in active :
        pc[r] = "returned" =>
            (result[r].state.tool_response.present
             # (result[r].state.clarification_question # Null))

C2_Witness ==
    /\ pc["a"] = "returned"
    /\ result["a"].state.tool_response.present
    /\ ~result["a"].state.tool_response.success
    /\ Env("a").tool = "settings_error"

C4_FallbackBundleIsEmpty ==
    \A r \in active :
        (pc[r] = "validate" /\ GatewayFailed(Env(r).extract)
            /\ ~HistoryTextRaises(st[r].chat_history)) =>
            /\ st[r].extracted_params.confidence = 0
            /\ \A i \in 1..Len(Required(st[r].intent)) :
                  Contains(st[r].extracted_params.missing_required,
                           Required(st[r].intent)[i])

\* C5: after Validate, ExecuteTool is the next stage exactly when
\* validation_passed is true and Clarify is otherwise, and a run that has
\* left the graph ran exactly one of the two.
C5_BranchOnValidation ==
    \A r \in active :
        /\ Ran(r, "validate") =>
              /\ (pc[r] = "execute_tool" \/ Ran(r, "execute_tool"))
                    <=> st[r].validation_passed
              /\ (pc[r] = "clarify" \/ Ran(r, "clarify"))
                    <=> ~st[r].validation_passed
        /\ ~Ran(r, "validate") =>
              ~(Ran(r, "execute_tool") \/ Ran(r, "clarify")
                \/ pc[r] \in {"execute_tool", "clarify"})
        /\ pc[r] \in {"END", "returned"} =>
              (Ran(r, "execute_tool") # Ran(r, "clarify"))

C5_Witness ==
    /\ pc["a"] = "returned"
    /\ Ran("a", "execute_tool") /\ ~Ran("a", "clarify")
    /\ result["a"].state.validation_passed

\* C6: in one run the stages run at most once each, in the order
\* classify, extract, validate, one terminal stage; every node issues at
\* most one outbound call and no call is issued twice, also after a fault
\* or a timeout.
StageOrders ==
    {<<"classify_intent", "extract_parameters", "validate", "execute_tool">>,
     <<"classify_intent", "extract_parameters", "validate", "clarify">>}
C6_NoStageOrCallRepeated ==
    \A r \in active :
        /\ \E o \in StageOrders :
              /\ Len(stages[r]) <= Len(o)
              /\ stages[r] = SubSeq(o, 1, Len(stages[r]))
        /\ Len(calls[r]) <= Len(stages[r])
        /\ \A i, j \in 1..Len(calls[r]) : calls[r][i] = calls[r][j] => i = j
        /\ Cardinality(ToolCalls(r)) <= 1

C6_Witness ==
    /\ pc["a"] = "returned"
    /\ Env("a").tool = "timeout" /\ Env("a").extract = "fail"
    /\ Cardinality(ToolCalls("a")) = 1
    /\ Len(stages["a"]) = 4

\* C7: with the same inputs and the same gateway and tool replies, the run
\* whose every repository write fails returns the same final_message,
\* tool_response and validation_passed as the run without a session.
C7_PersistenceFailureInvisible ==
    (pc["a"] = "returned" /\ pc["b"] = "returned") =>
        /\ result["a"].state.final_message = result["b"].state.final_message
        /\ result["a"].state.tool_response = result["b"].state.tool_response
        /\ result["a"].state.validation_passed = result["b"].state.validation_passed

C7_Witness ==
    /\ pc["a"] = "returned" /\ pc["b"] = "returned"
    /\ inputs["a"].db_session = "fail" /\ inputs["b"].db_session = "none"
    /\ result["a"].state.tool_response.success
    /\ result["b"].state.tool_response.success

\* C8: a bundle whose required fields are all present, non-empty and within
\* their constraints yields validation_passed true and a tool input that
\* holds every required field with the bundle's value.
RequiredFieldValid(f, v) ==
    CASE f = "count" -> v.t = "int" /\ v.n >= CountMin /\ v.n <= CountMax
      [] f = "note_taking_style" -> PydLiteral(v, NoteStyles)
      [] f = "difficulty" -> PydLiteral(v, Difficulties)
      [] f = "desired_depth" -> PydLiteral(v, Depths)
      [] OTHER -> v.t = "str" /\ v.s # ""
BundleValid(b) ==
    \A i \in 1..Len(Required(b.tool_type.name)) :
        RequiredFieldValid(Required(b.tool_type.name)[i],
                           b.parameters[Required(b.tool_type.name)[i]])
C8_ValidBundlePasses ==
    \A r \in active :
        (Ran(r, "validate") /\ BundleValid(st[r].extracted_params)) =>
            /\ st[r].validation_passed
            /\ st[r].tool_input.present
            /\ \A i \in 1..Len(Required(st[r].intent)) :
                  st[r].tool_input.fields[Required(st[r].intent)[i]]
                    = st[r].extracted_params.parameters[Required(st[r].intent)[i]]

\* C9: a flashcard bundle whose count is 21, is 0 or is not an integer
\* yields validation_passed false with count in the missing list, whatever
\* its other fields are.
BadCount(v) ==
    v.t # "absent" /\ (v.t # "int" \/ v.n < CountMin \/ v.n > CountMax)
C9_BadCountFlagged ==
    \A r \in active :
        (Ran(r, "validate")
            /\ st[r].extracted_params.tool_type.name = FLASHCARD_GENERATOR
            /\ st[r].extracted_params.tool_type.isEnum
            /\ BadCount(st[r].extracted_params.parameters["count"])) =>
            /\ ~st[r].validation_passed
            /\ Contains(st[r].extracted_params.missing_required, "count")

\* C10: a fault in any of the five stages appends an entry to the error log
\* and puts the stage's fallback value in place, and the run goes on to a
\* terminal stage.
StageFaulted(r, node) ==
    /\ Ran(r, node)
    /\ CASE node \in {"classify_intent", "extract_parameters"} ->
                HistoryTextRaises(st[r].chat_history)
          [] node = "validate" -> ~st[r].extracted_params.tool_type.isEnum
          [] node = "execute_tool" -> Env(r).tool \in {"settings_error", "ok_odd_shape"}
          [] OTHER ->
                generate_clarification_question(
                    st[r].extracted_params.missing_required, Env(r).clarify).raised
C10_EveryFaultLogged ==
    \A r \in active :
        pc[r] \in {"END", "returned"} =>
            /\ Len(st[r].errors) >= Cardinality({n \in Nodes : StageFaulted(r, n)})
            /\ Ran(r, "execute_tool") \/ Ran(r, "clarify")
            /\ st[r].intent \in ToolType
            /\ st[r].extracted_params.present
            /\ st[r].final_message # Null

\* C11: once the Clarify stage has run, also when it faulted and used the
\* static question, needs_clarification is true, clarification_question is
\* not null and final_message equals clarification_question.
C11_ClarifySetsFlagAndMirrors ==
    \A r \in active :
        Ran(r, "clarify") =>
            /\ st[r].needs_clarification
            /\ st[r].clarification_question # Null
            /\ st[r].final_message = st[r].clarification_question

\* C12: every state orchestrate returns has a final_message that is not
\* null and is the success message of an executed tool, the clarification
\* question, a tool-failure message carrying the tool response's error, or
\* the generic apology.
ToolFailureMessages(response) ==
    IF response.present /\ ~response.success /\ response.error # Null
    THEN {"Tool execution failed: " \o response.error,
          "An error occurred: " \o response.error}
    ELSE {}
C12_FinalMessageIsOneOfFour ==
    \A r \in active :
        pc[r] = "returned" =>
            LET s == result[r].state
            IN  /\ s.final_message # Null
                /\ \/ s.final_message = SuccessMessage /\ s.tool_response.success
                   \/ s.final_message = s.clarification_question
                   \/ s.final_message \in ToolFailureMessages(s.tool_response)
                   \/ s.final_message = Apology

C12_Witness ==
    /\ pc["a"] = "returned"
    /\ Env("a").tool = "settings_error"
    /\ result["a"].state.final_message
          \in ToolFailureMessages(result["a"].state.tool_response)

\* C13: a run that ran ExecuteTool or Clarify returns a state in which
\* tool_response and clarification_question are never both non-null and
\* never both null: ExecuteTool leaves a response and no question, Clarify
\* leaves a question and no response.
C13_ResponseXorQuestion ==
    \A r \in active :
        (pc[r] = "returned" /\ (Ran(r, "execute_tool") \/ Ran(r, "clarify"))) =>
            LET s == result[r].state
            IN  /\ ~(s.tool_response.present /\ s.clarification_question # Null)
                /\ s.tool_response.present \/ s.clarification_question # Null
                /\ Ran(r, "execute_tool") => s.tool_response.present
                /\ Ran(r, "clarify") => s.clarification_question # Null

C13_Witness ==
    /\ pc["a"] = "returned"
    /\ Ran("a", "clarify")
    /\ result["a"].state.clarification_question = StaticQuestion
    /\ ~result["a"].state.tool_response.present

\* C14: when the graph engine raises and the outer except branch of
\* orchestrate catches it, the state returned has a non-empty error log and
\* the generic apology as final_message.
C14_OuterCatchApologises ==
    [][\A r \in active :
          (pc[r] \in Nodes /\ pc'[r] = "returned") =>
              /\ ~result'[r].raised
              /\ result'[r].state.errors # <<>>
              /\ result'[r].state.final_message = Apology]_vars

C14_Witness ==
    /\ pc["a"] = "returned"
    /\ ~Ran("a", "execute_tool") /\ ~Ran("a", "clarify")
    /\ result["a"].state.final_message = Apology
    /\ result["a"].state.errors = <<"engine error">>

\* C15: when the gateway call of classification fails, intent is the concept
\* explainer whatever the message is, and the run goes on to extraction.
C15_ClassifyFailureDefaults ==
    \A r \in active :
        (Ran(r, "classify_intent") /\ Env(r).classify = "fail") =>
            /\ st[r].intent = CONCEPT_EXPLAINER
            /\ pc[r] = "extract_parameters" \/ Ran(r, "extract_parameters")

C15_Witness ==
    /\ pc["a"] = "extract_parameters"
    /\ Env("a").classify = "fail"
    /\ inputs["a"].user_message = "make notes"
    /\ st["a"].intent = CONCEPT_EXPLAINER

\* C16: when the gateway's classification reply is none of the three tool
\* ids, intent follows the keywords of the raw message and is the concept
\* explainer when no keyword matches; after the classification stage intent
\* is always one of the three tool ids.
C16_UnrecognizedReplyUsesKeywords ==
    \A r \in active :
        Ran(r, "classify_intent") =>
            /\ st[r].intent \in ToolType
            /\ (Env(r).classify = "unrecognized"
                    /\ ~HistoryTextRaises(inputs[r].chat_history)) =>
                  CASE inputs[r].user_message = "make notes" ->
                            st[r].intent = NOTE_MAKER
                    [] inputs[r].user_message = "quiz me" ->
                            st[r].intent = FLASHCARD_GENERATOR
                    [] inputs[r].user_message = "notes and a quiz" ->
                            st[r].intent \in {NOTE_MAKER, FLASHCARD_GENERATOR}
                    [] OTHER -> st[r].intent = CONCEPT_EXPLAINER

C16_Witness ==
    /\ Ran("a", "classify_intent")
    /\ Env("a").classify = "unrecognized"
    /\ inputs["a"].user_message = "help"
    /\ inputs["a"].chat_history = "empty"
    /\ st["a"].intent = CONCEPT_EXPLAINER

\* C17: the tool call never raises; a timeout, a non-success status and a
\* transport error each give a ToolResponse with success false, null data
\* and an error string of their own, and the run ends with a final_message
\* that carries that error.
ToolFaultReplies == {"timeout", "bad_status", "transport_error"}
C17_ToolCallNeverRaises ==
    \A r \in active :
        Ran(r, "execute_tool") =>
            LET t == execute_tool(st[r].intent, Env(r).tool)
            IN  /\ ~t.raised
                /\ Env(r).tool \in ToolFaultReplies =>
                      /\ st[r].tool_response = t.response
                      /\ ~t.response.success
                      /\ t.response.data = Null
                      /\ t.response.error # Null
                      /\ st[r].final_message
                            = "Tool execution failed: " \o t.response.error
                      /\ \A other \in ToolFaultReplies \ {Env(r).tool} :
                            execute_tool(st[r].intent, other).response.error
                                # t.response.error

\* C18: with a working database session every run has written exactly one
\* extraction record once the extraction stage has run, before validation
\* and whatever validation decides, also when extraction fell back to its
\* fault value.
WritesOf(r, kind) ==
    {i \in 1..Len(dbLog) :
        dbLog[i].conv = inputs[r].conversation_id /\ dbLog[i].kind = kind}
C18_OneExtractionRecord ==
    \A r \in active :
        inputs[r].db_session = "ok" =>
            /\ Ran(r, "extract_parameters") =>
                  Cardinality(WritesOf(r, "parameter_extraction")) = 1
            /\ ~Ran(r, "extract_parameters") =>
                  WritesOf(r, "parameter_extraction") = {}

\* C19: when validation fails, the bundle's missing list holds only names
\* of fields of the chosen tool's schema, each of them missing or violating
\* its constraint, in the order of the schema.
SchemaOrder(tool) ==
    IF tool = NOTE_MAKER
    THEN <<"topic", "subject", "note_taking_style", "include_examples",
           "include_analogies">>
    ELSE IF tool = FLASHCARD_GENERATOR
    THEN <<"topic", "count", "difficulty", "subject", "include_examples">>
    ELSE <<"concept_to_explain", "current_topic", "desired_depth">>
IsSubsequence(sub, seq) ==
    \E pos \in [1..Len(sub) -> 1..Len(seq)] :
        /\ \A i \in 1..Len(sub) : seq[pos[i]] = sub[i]
        /\ \A i, j \in 1..Len(sub) : i < j => pos[i] < pos[j]
C19_MissingListNamesFields ==
    \A r \in active :
        (Ran(r, "validate") /\ ~st[r].validation_passed) =>
            LET b == st[r].extracted_params
                required == Required(b.tool_type.name)
            IN  /\ b.missing_required # <<>>
                /\ IsSubsequence(b.missing_required, SchemaOrder(b.tool_type.name))
                /\ \A i \in 1..Len(b.missing_required) :
                      Contains(required, b.missing_required[i]) =>
                          ~RequiredFieldValid(b.missing_required[i],
                                              b.parameters[b.missing_required[i]])

\* C20: with a working database session, a run that has ended in
\* ExecuteTool or in Clarify has persisted exactly one assistant message and
\* raised the conversation's message counter by exactly two.
C20_OneAssistantMessageTwoTurns ==
    \A r \in active :
        (inputs[r].db_session = "ok" /\ pc[r] \in {"END", "returned"}
            /\ (Ran(r, "execute_tool") \/ Ran(r, "clarify"))) =>
            /\ Cardinality(WritesOf(r, "assistant_message")) = 1
            /\ Cardinality(WritesOf(r, "increment")) = 2

\* C21: with a working database session every run has written the user's
\* message exactly once, as a user turn, once the classification stage has
\* run, also when classification faulted and fell back to the default tool.
C21_UserTurnPersistedOnce ==
    \A r \in active :
        (inputs[r].db_session = "ok" /\ Ran(r, "classify_intent")) =>
            Cardinality(WritesOf(r, "user_message")) = 1

\* C22: the confidence of every bundle held in the state lies in [0,1]
\* (0..100 hundredths), whatever the gateway replied, also when the reply
\* reports a confidence outside the range or none at all.
C22_ConfidenceInRange ==
    \A r \in active :
        st[r].extracted_params.present =>
            /\ st[r].extracted_params.confidence >= 0
            /\ st[r].extracted_params.confidence <= 100

C22_Witness ==
    /\ Ran("a", "extract_parameters")
    /\ Env("a").extract = "conf_out_of_range"
    /\ ReplyJson(st["a"].intent, "conf_out_of_range").confidence.n > 100
    /\ st["a"].extracted_params.confidence = 30

\* C23: a fault inside the Validate stage leaves validation_passed false
\* and tool_input null, and the run ends in Clarify without a tool call.
ValidateFaulted(r) ==
    /\ Ran(r, "validate")
    /\ validate_parameters(st[r].extracted_params.tool_type,
                           st[r].extracted_params.parameters).raised
C23_ValidateFaultClarifies ==
    \A r \in active :
        ValidateFaulted(r) =>
            /\ ~st[r].validation_passed
            /\ ~st[r].tool_input.present
            /\ pc[r] # "execute_tool" /\ ~Ran(r, "execute_tool")
            /\ ToolCalls(r) = {}
            /\ pc[r] = "clarify" \/ Ran(r, "clarify")

C23_Witness ==
    /\ pc["a"] = "returned"
    /\ ValidateFaulted("a")
    /\ Env("a").extract = "full"
    /\ Ran("a", "clarify")
    /\ Contains(st["a"].errors, "Validation error")

\* C24: when the gateway fails in the Clarify stage, the question asked is
\* the one the static lookup holds for the first name of the missing list,
\* for every missing list with at least one entry.
StaticLookup(name) ==
    CASE name = "topic" -> "What topic would you like to learn about?"
      [] name = "concept_to_explain" -> "Which concept would you like me to explain?"
      [] OTHER -> "Could you provide more details about " \o name \o "?"
C24_FallbackKeyedByFirstMissing ==
    \A r \in active :
        (Ran(r, "clarify") /\ Env(r).clarify = "fail"
            /\ st[r].extracted_params.missing_required # <<>>) =>
            st[r].clarification_question
                = StaticLookup(st[r].extracted_params.missing_required[1])

SameButMissing(b1, b2) == b2 = [b1 EXCEPT !.missing_required = b2.missing_required]
C26_BundleFrame ==
    [][\A r \in active :
          LET b1 == st[r].extracted_params
              b2 == st'[r].extracted_params
          IN  /\ (~b1.present /\ b2.present) => pc[r] = "extract_parameters"
              /\ (pc[r] = "extract_parameters" /\ pc'[r] # pc[r]) =>
                    (~b1.present /\ b2.present)
              /\ b1.present =>
                    /\ SameButMissing(b1, b2)
                    /\ b2.missing_required # b1.missing_required =>
                          (pc[r] = "validate" /\ ~st'[r].validation_passed)
              /\ (pc[r] = "END" /\ pc'[r] = "returned") =>
                    result'[r].state.extracted_params = b1]_vars

C26_Witness ==
    /\ pc["a"] = "returned"
    /\ Env("a").extract = "partial_unreported"
    /\ result["a"].state.extracted_params.tool_type.isEnum
    /\ result["a"].state.extracted_params.missing_required # <<>>
    /\ result["a"].state.extracted_params.confidence = 70

\* C27: orchestrate leaves its inputs as they are: in every stage and in
\* the returned state the message, the profile, the history and the
\* conversation id are the values passed in.
SameInputs(s, i) ==
    /\ s.user_message = i.user_message
    /\ s.user_info = i.user_info
    /\ s.chat_history = i.chat_history
    /\ s.conversation_id = i.conversation_id
C27_InputsUnchanged ==
    \A r \in active :
        /\ pc[r] # "idle" => SameInputs(st[r], inputs[r])
        /\ pc[r] = "returned" => SameInputs(result[r].state, inputs[r])

C27_Witness ==
    /\ pc["a"] = "returned"
    /\ Ran("a", "execute_tool")
    /\ inputs["a"].chat_history = "objects"
    /\ inputs["a"].user_message = "notes and a quiz"
    /\ SameInputs(result["a"].state, inputs["a"])

\* C28: when the remote tool answers with a success status, the state has
\* a tool_response with success true that carries the payload, whatever the
\* payload's shape; nothing after the call makes the response a failed one.
SuccessStatusReplies == {"ok", "ok_odd_shape", "ok_not_json_object"}
C28_SuccessStaysSuccess ==
    \A r \in active :
        (Ran(r, "execute_tool") /\ Env(r).tool \in SuccessStatusReplies) =>
            /\ st[r].tool_response.present
            /\ st[r].tool_response.success
            /\ st[r].tool_response.data # Null

\* C29: with a working database session the ExecuteTool stage has written
\* exactly one execution record once it has run, for a successful and for a
\* failed tool response alike.
C29_OneExecutionRecord ==
    \A r \in active :
        (inputs[r].db_session = "ok" /\ Ran(r, "execute_tool")) =>
            Cardinality(WritesOf(r, "tool_execution")) = 1

\* C30: when every outbound call eventually returns or fails, every run
\* returns; it has run at most four stages, it returns from a terminal
\* stage or from the outer except, and nothing of it can run afterwards.
C30_RunTerminates ==
    /\ [](\A r \in active :
            /\ Len(stages[r]) <= 4
            /\ pc[r] = "returned" =>
                  /\ ~ENABLED NextEngine
                  /\ \/ Ran(r, "execute_tool") \/ Ran(r, "clarify")
                     \/ result[r].state.final_message = Apology)
    /\ <>(\A r \in active : pc[r] = "returned")

C30_Witness ==
    /\ pc["a"] = "returned"
    /\ Len(stages["a"]) = 4
    /\ Env("a").tool = "timeout"
    /\ ~ENABLED NextEngine

\* C31: a tool call is issued only from a state in which validation_passed
\* is true and tool_input is present and holds every required field of the
\* intent's tool; tool_input is present exactly when validation_passed is
\* true.
HoldsRequired(input, tool) ==
    \A i \in 1..Len(Required(tool)) : Truthy(input.fields[Required(tool)[i]])
C31_ToolCallNeedsValidInput ==
    \A r \in active :
        /\ st[r].tool_input.present <=> st[r].validation_passed
        /\ (pc[r] = "execute_tool" \/ Ran(r, "execute_tool")) =>
              /\ st[r].validation_passed
              /\ st[r].tool_input.present
              /\ st[r].intent \in ToolType
              /\ HoldsRequired(st[r].tool_input, st[r].intent)

C31_Witness ==
    /\ ToolCalls("a") # {}
    /\ st["a"].intent = FLASHCARD_GENERATOR
    /\ st["a"].validation_passed
    /\ HoldsRequired(st["a"].tool_input, FLASHCARD_GENERATOR)

\* C32: whenever the Clarify stage runs, the missing list it hands to the
\* gateway is non-empty, whether validation failed on missing fields, failed
\* on a constraint, or the Validate stage faulted.
C32_ClarifyHasMissingNames ==
    \A r \in active :
        (pc[r] = "clarify" \/ Ran(r, "clarify")) =>
            st[r].extracted_params.missing_required # <<>>

\* C33: once the runs on a conversation have returned, with persistence
\* enabled, the conversation's turn counter, which started at zero,
\* equals the number of user and assistant messages persisted for it.
AllReturned == \A r \in active : pc[r] = "returned"
C33_CounterMatchesMessages ==
    \A r \in active :
        (AllReturned /\ inputs[r].db_session # "none") =>
            message_count.row[inputs[r].conversation_id]
              = Cardinality(WritesOf(r, "user_message"))
                  + Cardinality(WritesOf(r, "assistant_message"))

\* C34: within one run the writes come in this order: user message,
\* extraction record, then the execution record and the assistant message
\* (ExecuteTool) or the assistant message alone (Clarify), then the
\* turn-counter increments; no write of a later stage precedes a write of
\* an earlier stage and only the increment is written twice.
WriteRank(kind) ==
    CASE kind = "user_message" -> 1
      [] kind = "parameter_extraction" -> 2
      [] kind = "tool_execution" -> 3
      [] kind = "assistant_message" -> 4
      [] OTHER -> 5
WritesBy(r) == {i \in 1..Len(dbLog) : dbLog[i].by = r}
C34_WritesInStageOrder ==
    \A r \in active :
        /\ \A i, j \in WritesBy(r) :
              i < j =>
                /\ WriteRank(dbLog[i].kind) <= WriteRank(dbLog[j].kind)
                /\ dbLog[i].kind = dbLog[j].kind => dbLog[i].kind = "increment"
        /\ \A i \in WritesBy(r) :
              /\ dbLog[i].kind = "tool_execution" => Ran(r, "execute_tool")
              /\ dbLog[i].kind \in {"assistant_message", "increment"} =>
                    (Ran(r, "execute_tool") \/ Ran(r, "clarify"))
              /\ dbLog[i].kind = "parameter_extraction" => Ran(r, "extract_parameters")

C34_Witness ==
    /\ pc["a"] = "returned"
    /\ [i \in 1..Len(dbLog) |-> dbLog[i].kind]
         = <<"user_message", "parameter_extraction", "tool_execution",
             "assistant_message", "increment", "increment">>
    /\ \A i \in 1..Len(dbLog) : dbLog[i].by = "a"

\* C35: for the same inputs and the same gateway, tool and persistence
\* outcomes, a failure of one persistence write included, the stages of
\* graph/nodes and the stages of workflow.py return the same state and
\* write the same sequence of records.
WriteKindsBy(r) ==
    LET RECURSIVE Kinds(_)
        Kinds(i) == IF i > Len(dbLog) THEN <<>>
                    ELSE IF dbLog[i].by = r THEN <<dbLog[i].kind>> \o Kinds(i + 1)
                    ELSE Kinds(i + 1)
    IN  Kinds(1)
C35_NodesMatchInline ==
    (pc["a"] = "returned" /\ pc["b"] = "returned") =>
        /\ result["a"].state = result["b"].state
        /\ WriteKindsBy("a") = WriteKindsBy("b")

\* C36: once the extraction stage has run, the bundle's tool id equals the
\* state's intent, on the path of a parsed reply and on both extraction
\* fallbacks, and every tool call and tool response of the run is for that
\* tool.
C36_BundleToolIsIntent ==
    \A r \in active :
        Ran(r, "extract_parameters") =>
            /\ st[r].intent \in ToolType
            /\ st[r].extracted_params.present
            /\ st[r].extracted_params.tool_type.name = st[r].intent
            /\ \A i \in ToolCalls(r) : calls[r][i] = "tool:" \o st[r].intent
            /\ st[r].tool_response.present =>
                  st[r].tool_response.tool_type = st[r].intent

C36_Witness ==
    /\ pc["a"] = "returned"
    /\ Ran("a", "clarify")
    /\ Env("a").extract = "fail"
    /\ st["a"].intent = FLASHCARD_GENERATOR
    /\ st["a"].extracted_params.tool_type.name = FLASHCARD_GENERATOR

\* C37: the bundle of a flashcard extraction never holds a count that is
\* present and is not an integer of 1..20, whatever count the reply held,
\* and validation never puts count in the missing list of a bundle whose
\* count is present.
C37_CountNormalised ==
    \A r \in active :
        (Ran(r, "extract_parameters") /\ st[r].intent = FLASHCARD_GENERATOR) =>
            LET count == st[r].extracted_params.parameters["count"]
            IN  count.t # "absent" =>
                  /\ IsInstanceInt(count)
                  /\ count.n >= CountMin /\ count.n <= CountMax
                  /\ Ran(r, "validate") =>
                        ~Contains(st[r].extracted_params.missing_required, "count")

C37_Witness ==
    /\ Ran("a", "validate")
    /\ st["a"].extracted_params.parameters["count"] = PyInt(5)
    /\ st["a"].extracted_params.parameters["topic"] = PyStr("photosynthesis")
    /\ st["a"].extracted_params.parameters["difficulty"] = PyStr("easy")
    /\ st["a"].validation_passed

\* C38: when two runs on one conversation interleave their turn-counter
\* increments, no increment is lost: the counter is its initial value plus
\* the number of increments that went through.
IncrementsOf(c) ==
    {i \in 1..Len(dbLog) : dbLog[i].conv = c /\ dbLog[i].kind = "increment"}
C38_NoLostIncrement ==
    \A c \in Conversations :
        message_count.row[c] = message_count.initial[c] + Cardinality(IncrementsOf(c))

C38_Witness ==
    /\ pc["a"] = "END" /\ pc["b"] = "END"
    /\ message_count.initial["conversation-1"] = 1
    /\ message_count.loaded["a"] = 1 /\ message_count.loaded["b"] = 1
    /\ [i \in 1..Len(dbLog) |-> dbLog[i].by] = <<"a", "b", "a", "b">>
    /\ message_count.row["conversation-1"] = 5

====
